---- MODULE Spec2Model ----
(***************************************************************************)
(* Earthquake Extraction-Gate-Transform pipeline.                          *)
(*                                                                         *)
(*   SpecExtract : etl/download_historical.py  (generate_date_intervals,   *)
(*                 the per-interval fetch loop of main, summary, combine)  *)
(*   SpecGate    : etl/data_quality_check.py   (the four checks,           *)
(*                 run_quality_checks, main and its exit status)           *)
(*   Spec        : dags/earthquake_etl_dag.py  (the seven tasks, their     *)
(*                 linear dependencies and the retry policy)               *)
(*   SpecLive    : the same DAG under a scheduler that keeps scheduling    *)
(*   SpecTransform, SpecClean : etl/transform_data.py                      *)
(*   SpecRequest : one session.get of fetch_interval and its Retry object  *)
(*   SpecTrain   : transform_data.py followed by train.prepare_features    *)
(*   SpecApi     : api/app.py, the handler of POST /predict                *)
(***************************************************************************)
EXTENDS Integers, Sequences, FiniteSets, TLC

VARIABLES
    \* ---- download_historical.main ----
    start_year, end_year, interval_years, combine, use_mock,
    pc,                    \* position in main
    current_start,         \* generate_date_intervals: loop variable (seconds)
    intervals,             \* generate_date_intervals: result list
    idx,                   \* 1-based index of the next interval of the for loop
    all_features, successful_intervals, failed_intervals,
    responses,             \* what fetch_interval did for each interval, in order
    summary,               \* the "Successful intervals: a/b" line
    combined_data,         \* the combined dataset written by this run, or NoFile
    exit_status,           \* exit status of the download process
    \* ---- data_quality_check ----
    df,                    \* the DataFrame load_data returns for the input file
    fail_on_error, qpc, results, gate_error, gate_exit,
    \* ---- earthquake_etl_dag ----
    task_state,            \* state of each task instance of the run
    try_number,            \* attempts made by each task
    xcom,                  \* return value pushed by each task
    returncode,            \* exit status of the last subprocess of each task
    raw_file,              \* earthquakes_combined.geojson on disk
    processed_file,        \* the processed parquet file on disk
    \* ---- transform_data ----
    features,              \* data['features'] of the input GeoJSON file
    table,                 \* the DataFrame main holds in df
    tpc,                   \* position in transform_data.main
    tf_error,              \* the exception that ended main, or NoError
    output_table,          \* the parquet file main wrote, or NoOutput
    cleanings,             \* a table and the results of successive clean_data
    \* ---- one session.get of fetch_interval ----
    rpc,                   \* position in fetch_interval
    retry_total, retry_connect, retry_read,   \* counters of the Retry object
    attempt_log,           \* what each HTTP attempt met, in order
    fetch_result,          \* how fetch_interval ended
    \* ---- train.prepare_features ----
    train_pc,              \* position in train.py
    X,                     \* the feature matrix prepare_features returned
    \* ---- api/app.py, POST /predict ----
    apc,                   \* position of the request in the handler
    request,               \* the request being handled (or handled last)
    model_cache,           \* the model is in model_cache
    active_requests,       \* value of the ACTIVE_REQUESTS gauge
    request_count,         \* REQUEST_COUNT of /predict, by status label
    http_status,           \* status of the last response, 0 before any
    served                 \* requests received so far

extVars  == <<start_year, end_year, interval_years, combine, use_mock, pc,
              current_start, intervals, idx, all_features,
              successful_intervals, failed_intervals, responses, summary,
              combined_data, exit_status>>
gateVars == <<df, fail_on_error, qpc, results, gate_error, gate_exit>>
dagVars  == <<task_state, try_number, xcom, returncode, raw_file,
              processed_file>>
tfVars   == <<features, table, tpc, tf_error, output_table, cleanings>>
reqVars  == <<rpc, retry_total, retry_connect, retry_read, attempt_log,
              fetch_result>>
trainVars == <<train_pc, X>>
apiVars  == <<apc, request, model_cache, active_requests, request_count,
              http_status, served>>
vars     == <<extVars, gateVars, dagVars, tfVars, reqVars, trainVars, apiVars>>

NoFile  == "NoFile"

\* exit status of a process: still running, exit status 0, non-zero status
Running  == "running"
ExitZero == "exit 0"
ExitFail == "exit 1"

(***************************************************************************)
(* Bounds of the model.                                                    *)
(***************************************************************************)
FirstYear        == 2019   \* earliest year drawn for --start-year/--end-year
YearSpan         == 2      \* years drawn: FirstYear .. FirstYear+YearSpan
MaxIntervalYears == 2      \* --interval-years drawn from 0..MaxIntervalYears
MaxEvents        == 2      \* events one interval's response may hold

Years == FirstYear .. (FirstYear + YearSpan)

(***************************************************************************)
(* datetime arithmetic.  A datetime is the number of seconds since         *)
(* FirstYear-01-01 00:00:00, a timedelta a number of seconds.              *)
(***************************************************************************)
DaySeconds == 24 * 60 * 60

IsLeap(y) == (y % 4 = 0 /\ y % 100 # 0) \/ (y % 400 = 0)

YearDays(y) == IF IsLeap(y) THEN 366 ELSE 365

MonthDays(y, m) ==
    IF m = 2 THEN (IF IsLeap(y) THEN 29 ELSE 28)
    ELSE IF m \in {4, 6, 9, 11} THEN 30 ELSE 31

RECURSIVE DaysBeforeYear(_)
DaysBeforeYear(y) ==
    IF y = FirstYear THEN 0
    ELSE IF y > FirstYear THEN DaysBeforeYear(y - 1) + YearDays(y - 1)
    ELSE DaysBeforeYear(y + 1) - YearDays(y)

RECURSIVE DaysBeforeMonth(_, _)
DaysBeforeMonth(y, m) ==
    IF m = 1 THEN 0 ELSE DaysBeforeMonth(y, m - 1) + MonthDays(y, m - 1)

\* ordinal of a calendar date (days since FirstYear-01-01)
DayNumber(y, m, d) == DaysBeforeYear(y) + DaysBeforeMonth(y, m) + (d - 1)

\* datetime(y, m, d, hh, mm, ss)
Datetime(y, m, d, hh, mm, ss) ==
    DayNumber(y, m, d) * DaySeconds + hh * 3600 + mm * 60 + ss

\* timedelta(...).days : whole days, rounded towards minus infinity
TimedeltaDays(delta) == delta \div DaySeconds

RECURSIVE YearOfDay(_, _)
YearOfDay(dn, y) ==
    IF dn < DaysBeforeYear(y) THEN YearOfDay(dn, y - 1)
    ELSE IF dn >= DaysBeforeYear(y + 1) THEN YearOfDay(dn, y + 1)
    ELSE y

RECURSIVE MonthDayOf(_, _, _)
MonthDayOf(y, rest, m) ==
    IF rest < MonthDays(y, m) THEN <<m, rest + 1>>
    ELSE MonthDayOf(y, rest - MonthDays(y, m), m + 1)

\* dt.strftime("%Y-%m-%d"): the calendar date <<year, month, day>> of dt;
\* the time of day is discarded
Strftime(dt) ==
    LET dn == dt \div DaySeconds
        y  == YearOfDay(dn, FirstYear)
        md == MonthDayOf(y, dn - DaysBeforeYear(y), 1)
    IN  <<y, md[1], md[2]>>

\* the ordinal of a formatted date (used to compare formatted dates)
DateOrdinal(s) == DayNumber(s[1], s[2], s[3])

Min(a, b) == IF a < b THEN a ELSE b

(***************************************************************************)
(* download_historical.py                                                  *)
(***************************************************************************)

\* end_date = datetime(end_year, 12, 31, 23, 59, 59)
EndDate == Datetime(end_year, 12, 31, 23, 59, 59)

\* interval_end with the closing "- timedelta(seconds=1)" forgotten
IntervalEndNoSecond(cs, n) == cs + 365 * n * DaySeconds

\* interval_end = current_start + timedelta(days=365*interval_years)
\*                - timedelta(seconds=1)
IntervalEnd(cs, n) == cs + 365 * n * DaySeconds - 1

\* current_end = min(interval_end, end_date)
CurrentEnd(cs, n, ed) == Min(IntervalEnd(cs, n), ed)

\* "Only add interval if it spans at least 1 day"
SpansOneDay(cs, ce) == TimedeltaDays(ce - cs) >= 1

\* the events fetch_interval returns for interval i when the response holds
\* c events: each event is tagged with the interval it came from
Events(i, c) == [k \in 1 .. c |-> <<i, k>>]

FailKinds == {"http_error", "connection_error", "save_error"}

\* What one pass through the body of the for loop can meet:
\*   ok               fetch_interval returned and both files were saved
\*   http_error       status != 200, fetch_interval raised HTTPError
\*   connection_error session.get raised a RequestException
\*   save_error       the response arrived, saving the interval file raised
Outcomes ==
    [kind : {"ok", "save_error"}, count : 0 .. MaxEvents]
    \cup [kind : {"http_error", "connection_error"}, count : {0}]

\* all_features after the loop body, with extend() moved before the saves
AllFeaturesAfterEarlyExtend(all, out, evs, comb) ==
    IF out.kind \in {"ok", "save_error"} /\ comb THEN all \o evs ELSE all

\* all_features after the loop body: extended only when nothing raised and
\* combine is set
AllFeaturesAfter(all, out, evs, comb) ==
    IF out.kind = "ok" /\ comb THEN all \o evs ELSE all

\* successful_intervals after the loop body
SuccessfulAfter(succ, out, iv) ==
    IF out.kind = "ok" THEN Append(succ, <<iv[1], iv[2], out.count>>) ELSE succ

\* failed_intervals when only what fetch_interval raised is recorded
FailedAfterFetchOnly(failed, out, iv) ==
    IF out.kind \in {"ok", "save_error"} THEN failed
    ELSE Append(failed, <<iv[1], iv[2], out.kind>>)

\* failed_intervals after the loop body
FailedAfter(failed, out, iv) ==
    IF out.kind = "ok" THEN failed ELSE Append(failed, <<iv[1], iv[2], out.kind>>)

\* retry_delay=1.5 passed to fetch_interval by main, in tenths of a second
retry_delay == 15

\* seconds (in tenths) fetch_interval slept before it returned or raised:
\* time.sleep(retry_delay) stands after r.json() on the path that returns,
\* and the paths that raise leave the try block before it
SleepAfter(out) ==
    IF out.kind \in {"ok", "save_error"} THEN retry_delay ELSE 0

\* the mock branch: one hard-coded event, written to historical_mock.*
MockRun ==
    /\ UNCHANGED <<gateVars, dagVars, tfVars, reqVars, trainVars, apiVars>>
    /\ pc = "start" /\ use_mock
    /\ pc' = "done"
    /\ exit_status' = ExitZero
    /\ UNCHANGED <<start_year, end_year, interval_years, combine, use_mock,
                   current_start, intervals, idx, all_features,
                   successful_intervals, failed_intervals, responses,
                   summary, combined_data>>

\* intervals = []; current_start = datetime(start_year, 1, 1)
GenBegin ==
    /\ UNCHANGED <<gateVars, dagVars, tfVars, reqVars, trainVars, apiVars>>
    /\ pc = "start" /\ ~use_mock
    /\ current_start' = Datetime(start_year, 1, 1, 0, 0, 0)
    /\ intervals' = <<>>
    /\ pc' = "generate"
    /\ UNCHANGED <<start_year, end_year, interval_years, combine, use_mock,
                   idx, all_features, successful_intervals, failed_intervals,
                   responses, summary, combined_data, exit_status>>

\* one iteration of "while current_start < end_date"
GenIterate ==
    /\ UNCHANGED <<gateVars, dagVars, tfVars, reqVars, trainVars, apiVars>>
    /\ pc = "generate"
    /\ current_start < EndDate
    /\ LET current_end == CurrentEnd(current_start, interval_years, EndDate)
           next_start  == current_end + 1
       IN  /\ intervals' =
                 IF SpansOneDay(current_start, current_end)
                 THEN Append(intervals,
                             <<Strftime(current_start), Strftime(current_end)>>)
                 ELSE intervals
           /\ current_start' = next_start
           /\ pc' = IF next_start > EndDate THEN "fetch" ELSE "generate"
    /\ UNCHANGED <<start_year, end_year, interval_years, combine, use_mock,
                   idx, all_features, successful_intervals, failed_intervals,
                   responses, summary, combined_data, exit_status>>

\* the while condition is false: return intervals
GenExit ==
    /\ UNCHANGED <<gateVars, dagVars, tfVars, reqVars, trainVars, apiVars>>
    /\ pc = "generate"
    /\ ~(current_start < EndDate)
    /\ pc' = "fetch"
    /\ UNCHANGED <<start_year, end_year, interval_years, combine, use_mock,
                   current_start, intervals, idx, all_features,
                   successful_intervals, failed_intervals, responses,
                   summary, combined_data, exit_status>>

\* one pass through the body of "for i, (start_date, end_date) in enumerate"
FetchInterval ==
    /\ UNCHANGED <<gateVars, dagVars, tfVars, reqVars, trainVars, apiVars>>
    /\ pc = "fetch"
    /\ idx <= Len(intervals)
    /\ \E out \in Outcomes :
          LET evs == Events(idx, out.count)
              iv  == intervals[idx]
          IN  /\ all_features' = AllFeaturesAfter(all_features, out, evs, combine)
              /\ successful_intervals' =
                     SuccessfulAfter(successful_intervals, out, iv)
              /\ failed_intervals' = FailedAfter(failed_intervals, out, iv)
              /\ responses' = Append(responses,
                                      [kind     |-> out.kind,
                                       events   |-> evs,
                                       interval |-> iv,
                                       slept    |-> SleepAfter(out)])
    /\ idx' = idx + 1
    /\ UNCHANGED <<start_year, end_year, interval_years, combine, use_mock, pc,
                   current_start, intervals, summary, combined_data,
                   exit_status>>

\* the summary printed after the loop
Summary ==
    /\ UNCHANGED <<gateVars, dagVars, tfVars, reqVars, trainVars, apiVars>>
    /\ pc = "fetch"
    /\ idx > Len(intervals)
    /\ summary' = [successful |-> Len(successful_intervals),
                   total      |-> Len(intervals),
                   failed     |-> Len(failed_intervals)]
    /\ pc' = "combine"
    /\ UNCHANGED <<start_year, end_year, interval_years, combine, use_mock,
                   current_start, intervals, idx, all_features,
                   successful_intervals, failed_intervals, responses,
                   combined_data, exit_status>>

\* no combined dataset was written
NoCombined ==
    [written            |-> FALSE,
     features           |-> <<>>,
     total_features     |-> 0,
     intervals_combined |-> 0,
     date_range         |-> <<0, 0>>]

\* the combined dataset main writes
CombinedData ==
    [written            |-> TRUE,
     features           |-> all_features,
     total_features     |-> Len(all_features),
     intervals_combined |-> Len(successful_intervals),
     date_range         |-> <<start_year, end_year>>]

\* "if combine and all_features": write earthquakes_combined.*; then "Done."
Combine ==
    /\ UNCHANGED <<gateVars, dagVars, tfVars, reqVars, trainVars, apiVars>>
    /\ pc = "combine"
    /\ combined_data' =
          IF combine /\ all_features # <<>> THEN CombinedData ELSE combined_data
    /\ pc' = "done"
    /\ exit_status' = ExitZero
    /\ UNCHANGED <<start_year, end_year, interval_years, combine, use_mock,
                   current_start, intervals, idx, all_features,
                   successful_intervals, failed_intervals, responses, summary>>

ExtInit ==
    /\ start_year \in Years
    /\ end_year \in Years
    /\ interval_years \in 0 .. MaxIntervalYears
    /\ combine \in BOOLEAN
    /\ use_mock \in BOOLEAN
    /\ pc = "start"
    /\ current_start = 0
    /\ intervals = <<>>
    /\ idx = 1
    /\ all_features = <<>>
    /\ successful_intervals = <<>>
    /\ failed_intervals = <<>>
    /\ responses = <<>>
    /\ summary = [successful |-> 0, total |-> 0, failed |-> 0]
    /\ combined_data = NoCombined
    /\ exit_status = Running

ExtNext ==
    \/ MockRun
    \/ GenBegin
    \/ GenIterate
    \/ GenExit
    \/ FetchInterval
    \/ Summary
    \/ Combine


(***************************************************************************)
(* data_quality_check.py                                                   *)
(*                                                                         *)
(* A DataFrame is [columns, groups]: groups is a run-length encoding of    *)
(* the rows, a sequence of [row, count] meaning count >= 1 equal rows.     *)
(* A cell is [t, v]: t the Python type of the value in the file ("float",  *)
(* "int", "NoneType" for null, "str"), v the number in tenths.             *)
(***************************************************************************)
MaxGroups == 2             \* runs of equal rows in a drawn dataset

NULL_THRESHOLD_NUM == 1    \* NULL_THRESHOLD = 0.01 = 1/100
NULL_THRESHOLD_DEN == 100
MIN_ROWS == 100

KeyColumns == <<"magnitude", "time", "longitude", "latitude">>

F(v)   == [t |-> "float", v |-> v]
I(v)   == [t |-> "int", v |-> v]
PyNone == [t |-> "NoneType", v |-> 0]
PyStr  == [t |-> "str", v |-> 0]

\* a well-formed event: magnitude 4.5, an integer epoch, longitude 4.5,
\* latitude 4.5
BaseRow ==
    [magnitude |-> F(45), time |-> I(50), longitude |-> F(45), latitude |-> F(45)]

\* the other values drawn for a column
Deviations(c) ==
    IF c = "magnitude" THEN {PyNone, PyStr, I(50), F(110), F(-10)}
    ELSE IF c = "time" THEN {PyNone, PyStr, F(55)}
    ELSE {PyNone, PyStr, I(50), F(2000)}

RowTemplates ==
    {BaseRow} \cup
    UNION {{[BaseRow EXCEPT ![KeyColumns[k]] = v] : v \in Deviations(KeyColumns[k])}
               : k \in 1 .. 4}

\* sizes of the runs: datasets of 99 rows (99, 1 + 98), 100 rows (1 + 99)
\* and more (98 + 98, ...) arise
GroupCounts == {1, MIN_ROWS - 2, MIN_ROWS - 1}

RowGroups == [row : RowTemplates, count : GroupCounts]

AllColumns == {KeyColumns[k] : k \in 1 .. 4}

\* load_data on a GeoJSON file: every record carries every key, so the frame
\* has all columns unless there is no feature at all (DataFrame([]))
GeoFrames ==
    {[columns |-> IF gs = <<>> THEN {} ELSE AllColumns, groups |-> gs] :
         gs \in UNION {[1 .. n -> RowGroups] : n \in 0 .. MaxGroups}}

\* load_data on a parquet file: the table may lack a column and may have
\* columns but no row
ParquetFrames ==
    {[columns |-> AllColumns \ {c}, groups |-> gs] :
         c \in AllColumns,
         gs \in {<<>>} \cup {<<[row |-> BaseRow, count |-> n]>> : n \in GroupCounts}}
    \cup {[columns |-> AllColumns, groups |-> <<>>]}

Frames == GeoFrames \cup ParquetFrames

RECURSIVE SumCounts(_, _)
\* the rows of the groups whose index is in S
SumCounts(gs, S) ==
    IF S = {} THEN 0
    ELSE LET j == CHOOSE x \in S : TRUE
         IN  gs[j].count + SumCounts(gs, S \ {j})

\* len(df)
RowCount(d) == SumCounts(d.groups, DOMAIN d.groups)

\* df[col].isna().sum()
NullCount(d, c) ==
    SumCounts(d.groups, {j \in DOMAIN d.groups : d.groups[j].row[c].t = "NoneType"})

ColumnTypes(d, c) == {d.groups[j].row[c].t : j \in DOMAIN d.groups}

\* the dtype pandas gives the column: object when it holds a string or nothing
\* but None, int64 when it holds only ints, float64 otherwise (None -> NaN)
Dtype(d, c) ==
    LET ts == ColumnTypes(d, c)
    IN  IF "str" \in ts \/ ts = {"NoneType"} \/ ts = {} THEN "object"
        ELSE IF ts = {"int"} THEN "int64"
        ELSE "float64"

\* type(df[col].iloc[0]): an object column yields the Python object itself,
\* a numeric column a numpy scalar
Iloc0Type(d, c) ==
    LET dt == Dtype(d, c)
    IN  IF dt = "object" THEN d.groups[1].row[c].t
        ELSE IF dt = "int64" THEN "numpy.int64"
        ELSE "numpy.float64"

\* type_checks[col]
ExpectedTypes(c) ==
    IF c = "time" THEN {"int", "float", "numpy.int64"} ELSE {"float", "int"}

\* isinstance(x, types) for x of type t: numpy.float64 is a subclass of float,
\* numpy.int64 is not a subclass of int
IsInstance(t, types) ==
    t \in types \/ (t = "numpy.float64" /\ "float" \in types)

\* check_row_count with "<=" for "<"
CheckRowCountOffByOne(d) ==
    LET count == RowCount(d)
    IN  IF count <= MIN_ROWS
        THEN [passed |-> FALSE, messages |-> <<<<"row_count_below", count>>>>]
        ELSE [passed |-> TRUE, messages |-> <<<<"row_count_passed", count>>>>]

\* check_row_count
CheckRowCount(d) ==
    LET count == RowCount(d)
    IN  IF count < MIN_ROWS
        THEN [passed |-> FALSE, messages |-> <<<<"row_count_below", count>>>>]
        ELSE [passed |-> TRUE, messages |-> <<<<"row_count_passed", count>>>>]

\* null_pct > threshold with ">=" for ">"
ExceedsThresholdInclusive(nulls, n) ==
    n > 0 /\ nulls * NULL_THRESHOLD_DEN >= n * NULL_THRESHOLD_NUM

\* null_pct = nulls / n; null_pct > threshold.  The quotient of two counts
\* differs from 1/100 by at least 1/(100 n) or is its nearest double, so the
\* floating-point test decides as the exact one; 0/0 is nan and nan > x is
\* False
ExceedsThreshold(nulls, n) ==
    n > 0 /\ nulls * NULL_THRESHOLD_DEN > n * NULL_THRESHOLD_NUM

RECURSIVE NullViolations(_, _)
\* the loop of check_null_values over key_columns[k..]
NullViolations(d, k) ==
    IF k > Len(KeyColumns) THEN <<>>
    ELSE LET c == KeyColumns[k]
         IN  (IF c \notin d.columns THEN <<<<"missing_column", c>>>>
              ELSE IF ExceedsThreshold(NullCount(d, c), RowCount(d))
                   THEN <<<<"null_values", c>>>>
                   ELSE <<>>)
             \o NullViolations(d, k + 1)

\* check_null_values
CheckNullValues(d) ==
    LET v == NullViolations(d, 1)
    IN  [passed |-> v = <<>>, messages |-> v]

\* the value isinstance() is applied to:
\* df[col].iloc[0] if len(df) > 0 else None
SchemaProbe(d, c) ==
    IF RowCount(d) > 0 THEN Iloc0Type(d, c) ELSE "NoneType"

RECURSIVE TypeViolations(_, _)
\* the loop of check_schema over type_checks.items()[k..]
TypeViolations(d, k) ==
    IF k > Len(KeyColumns) THEN <<>>
    ELSE LET c == KeyColumns[k]
         IN  (IF c \in d.columns /\ ~IsInstance(SchemaProbe(d, c), ExpectedTypes(c))
              THEN <<<<"wrong_type", c>>>>
              ELSE <<>>)
             \o TypeViolations(d, k + 1)

\* check_schema
CheckSchema(d) ==
    LET missing == {c \in AllColumns : c \notin d.columns}
        v == (IF missing # {} THEN <<<<"missing_columns", missing>>>> ELSE <<>>)
             \o TypeViolations(d, 1)
    IN  [passed |-> v = <<>>, messages |-> v]

RangeColumns == <<"magnitude", "longitude", "latitude">>

RangeLow(c)  == IF c = "magnitude" THEN 0 ELSE IF c = "longitude" THEN -1800 ELSE -900
RangeHigh(c) == IF c = "magnitude" THEN 100 ELSE IF c = "longitude" THEN 1800 ELSE 900

\* len(df[(df[c] < low) | (df[c] > high)]): None/NaN compares False
OutOfRangeCount(d, c) ==
    SumCounts(d.groups,
              {j \in DOMAIN d.groups :
                  /\ d.groups[j].row[c].t \in {"float", "int"}
                  /\ \/ d.groups[j].row[c].v < RangeLow(c)
                     \/ d.groups[j].row[c].v > RangeHigh(c)})

\* comparing an object column that holds a str with a number raises TypeError
RangeRaises(d) ==
    \E k \in 1 .. Len(RangeColumns) :
        /\ RangeColumns[k] \in d.columns
        /\ "str" \in ColumnTypes(d, RangeColumns[k])

RECURSIVE RangeViolations(_, _)
RangeViolations(d, k) ==
    IF k > Len(RangeColumns) THEN <<>>
    ELSE LET c == RangeColumns[k]
         IN  (IF c \in d.columns /\ OutOfRangeCount(d, c) > 0
              THEN <<<<"out_of_range", c, OutOfRangeCount(d, c)>>>>
              ELSE <<>>)
             \o RangeViolations(d, k + 1)

\* check_value_ranges (when it does not raise)
CheckValueRanges(d) ==
    LET v == RangeViolations(d, 1)
    IN  [passed |-> v = <<>>, messages |-> v]

\* results after a check, the verdict overwritten by the latest check
ResultsAfterOverwrite(res, name, chk) ==
    [res EXCEPT !.checks = Append(@, [name |-> name, passed |-> chk.passed,
                                      messages |-> chk.messages]),
                !.passed = chk.passed,
                !.violations = IF chk.passed THEN @ ELSE @ \o chk.messages]

\* results after a check: results['checks'][name] = ...; if not passed:
\* results['passed'] = False; results['violations'] gets the messages
ResultsAfter(res, name, chk) ==
    [res EXCEPT !.checks = Append(@, [name |-> name, passed |-> chk.passed,
                                      messages |-> chk.messages]),
                !.passed = IF chk.passed THEN @ ELSE FALSE,
                !.violations = IF chk.passed THEN @ ELSE @ \o chk.messages]

NoResults == [row_count |-> 0, checks |-> <<>>, passed |-> TRUE, violations |-> <<>>]

\* exit status of main, sys.exit(1) taken whatever fail_on_error is
GateExitStatusAlwaysFail(raised, passed, foe) ==
    IF raised \/ ~passed THEN ExitFail ELSE ExitZero

\* the exit status main ends with: sys.exit(1) only under fail_on_error,
\* sys.exit(0) on a passed report, otherwise main returns (status 0)
GateExitStatus(raised, passed, foe) ==
    IF raised THEN (IF foe THEN ExitFail ELSE ExitZero)
    ELSE IF ~passed THEN (IF foe THEN ExitFail ELSE ExitZero)
    ELSE ExitZero

\* df = load_data(...): the frame, or an exception (unreadable file, bad
\* JSON, unsupported format)
GateLoad ==
    /\ UNCHANGED <<extVars, dagVars, tfVars, reqVars, trainVars, apiVars>>
    /\ qpc = "load"
    /\ \E raised \in BOOLEAN :
          IF raised
          THEN /\ gate_error' = TRUE
               /\ qpc' = "except"
               /\ results' = results
          ELSE /\ gate_error' = FALSE
               /\ qpc' = "row_count"
               /\ results' = [NoResults EXCEPT !.row_count = RowCount(df)]
    /\ UNCHANGED <<df, fail_on_error, gate_exit>>

\* Check 1
GateRowCount ==
    /\ UNCHANGED <<extVars, dagVars, tfVars, reqVars, trainVars, apiVars>>
    /\ qpc = "row_count"
    /\ results' = ResultsAfter(results, "row_count", CheckRowCount(df))
    /\ qpc' = "null_values"
    /\ UNCHANGED <<df, fail_on_error, gate_error, gate_exit>>

\* Check 2
GateNullValues ==
    /\ UNCHANGED <<extVars, dagVars, tfVars, reqVars, trainVars, apiVars>>
    /\ qpc = "null_values"
    /\ results' = ResultsAfter(results, "null_values", CheckNullValues(df))
    /\ qpc' = "schema"
    /\ UNCHANGED <<df, fail_on_error, gate_error, gate_exit>>

\* Check 3
GateSchema ==
    /\ UNCHANGED <<extVars, dagVars, tfVars, reqVars, trainVars, apiVars>>
    /\ qpc = "schema"
    /\ results' = ResultsAfter(results, "schema", CheckSchema(df))
    /\ qpc' = "value_ranges"
    /\ UNCHANGED <<df, fail_on_error, gate_error, gate_exit>>

\* Check 4, and return results
GateValueRanges ==
    /\ UNCHANGED <<extVars, dagVars, tfVars, reqVars, trainVars, apiVars>>
    /\ qpc = "value_ranges"
    /\ IF RangeRaises(df)
       THEN /\ gate_error' = TRUE
            /\ qpc' = "except"
            /\ results' = results
       ELSE /\ gate_error' = gate_error
            /\ qpc' = "report"
            /\ results' = ResultsAfter(results, "value_ranges", CheckValueRanges(df))
    /\ UNCHANGED <<df, fail_on_error, gate_exit>>

\* the rest of main: print_results, then the exit status
GateExit ==
    /\ UNCHANGED <<extVars, dagVars, tfVars, reqVars, trainVars, apiVars>>
    /\ qpc \in {"report", "except"}
    /\ \E foe \in BOOLEAN :
          /\ fail_on_error' = foe
          /\ gate_exit' = GateExitStatus(gate_error, results.passed, foe)
    /\ qpc' = "done"
    /\ UNCHANGED <<df, results, gate_error>>

GateInit ==
    /\ df \in Frames
    /\ fail_on_error = TRUE
    /\ qpc = "load"
    /\ results = NoResults
    /\ gate_error = FALSE
    /\ gate_exit = Running

GateNext ==
    \/ GateLoad
    \/ GateRowCount
    \/ GateNullValues
    \/ GateSchema
    \/ GateValueRanges
    \/ GateExit

(***************************************************************************)
(* transform_data.py                                                       *)
(*                                                                         *)
(* A feature of the input file is [id, mag, time, coords]: id a string, or *)
(* NoId when the feature carries no "id" key; mag and time cells of the    *)
(* file as above (magnitudes in tenths; time, epoch milliseconds in the    *)
(* file, in whole minutes of 60000 ms so that thirty days fit an integer); *)
(* coords the "coordinates" list (degrees and kilometres in tenths).       *)
(* A DataFrame is the sequence of its rows, a row a record of cells:       *)
(*   Q(n, d)   the float n/d             NaN     the float nan             *)
(*   PyNone    None in an object column  NaT     the null datetime         *)
(*   [t |-> "datetime", v |-> s]         s seconds after the epoch         *)
(* Arithmetic on floats is exact; rounding is not modelled.                *)
(***************************************************************************)
MaxInput == 3              \* features one drawn input file may hold

NoId == "<no id>"

Q(n, d) == [t |-> "float", v |-> n, d |-> d]

RECURSIVE GCD(_, _)
GCD(a, b) == IF b = 0 THEN (IF a < 0 THEN 0 - a ELSE a) ELSE GCD(b, a % b)

\* the float n/d, d > 0, in lowest terms
Ratio(n, d) == Q(n \div GCD(n, d), d \div GCD(n, d))
NaN     == [t |-> "nan", v |-> 0, d |-> 1]
NaT     == [t |-> "NaT", v |-> 0]
Timestamp(s) == [t |-> "datetime", v |-> s]

NoError  == "none"
NoOutput == [written |-> FALSE, rows |-> <<>>]

\* pandas isna()
IsNull(x) == x.t \in {"nan", "NoneType", "NaT"}

\* the time of an event h hours after the epoch
HourMs(h) == I(h * 60)

FullCoords == <<F(100), F(200), F(100)>>

Feature(id, mag, time, coords) ==
    [id |-> id, mag |-> mag, time |-> time, coords |-> coords]

\* the features input files are drawn from
EventPool ==
    { Feature("a", F(30), HourMs(0), FullCoords),
      Feature("b", F(45), HourMs(6), <<F(100), F(200), F(-50)>>),
      Feature("c", F(20), HourMs(30), <<F(100), F(200)>>),
      Feature("d", F(110), HourMs(6), FullCoords),
      Feature("a", F(50), HourMs(30), FullCoords),
      Feature("e", PyNone, HourMs(30), FullCoords),
      Feature("f", F(25), PyNone, FullCoords),
      Feature("g", F(60), HourMs(6 + 7 * 24), FullCoords),
      Feature("h", F(10), HourMs(6 + 30 * 24), FullCoords),
      Feature("i", F(40), HourMs(30), <<>>),
      Feature("j", F(-10), HourMs(0), FullCoords),
      Feature(NoId, F(35), HourMs(0), FullCoords),
      Feature(NoId, F(42), HourMs(6), FullCoords) }

RECURSIVE SeqsUpTo(_, _)
SeqsUpTo(S, n) ==
    IF n = 0 THEN {<<>>}
    ELSE LET shorter == SeqsUpTo(S, n - 1)
         IN  shorter \cup {Append(s, x) : s \in shorter, x \in S}

InputFiles == SeqsUpTo(EventPool, MaxInput)

\* the record load_geojson builds for one feature
Record(feat) ==
    [id        |-> IF feat.id = NoId THEN "" ELSE feat.id,
     magnitude |-> feat.mag,
     time      |-> feat.time,
     longitude |-> IF Len(feat.coords) > 0 THEN feat.coords[1] ELSE PyNone,
     latitude  |-> IF Len(feat.coords) > 1 THEN feat.coords[2] ELSE PyNone,
     depth     |-> IF Len(feat.coords) > 2 THEN feat.coords[3] ELSE PyNone]

\* pd.DataFrame(records): a column holding nothing but None stays an object
\* column of None; any other column of numbers becomes float64, None -> nan
ToCell(recs, c, x) ==
    IF \A k \in DOMAIN recs : recs[k][c].t = "NoneType" THEN x
    ELSE IF x.t = "NoneType" THEN NaN
    ELSE Q(x.v, 1)

DataFrame(recs) ==
    [k \in DOMAIN recs |->
        [c \in DOMAIN recs[k] |->
            IF c = "id" THEN recs[k][c] ELSE ToCell(recs, c, recs[k][c])]]

\* load_geojson raises ValueError on an input without features
LoadRaises(feats) == feats = <<>>

LoadGeojson(feats) == DataFrame([k \in DOMAIN feats |-> Record(feats[k])])

\* row with the columns of new added (or overwritten)
Assign(row, new) == new @@ row

\* pd.to_datetime(time, unit='ms'): seconds after the epoch
ToDatetime(x) == IF IsNull(x) THEN NaT ELSE Timestamp((x.v * 60) \div x.d)

\* .dt.hour
HourOf(dt) == IF dt.t = "NaT" THEN NaN ELSE Q((dt.v \div 3600) % 24, 1)

\* create_time_features: datetime and the calendar columns derived from it
\* (hour stands for the calendar columns and their cyclical encodings, which
\* are all functions of datetime alone)
CreateTimeFeatures(tbl) ==
    [k \in DOMAIN tbl |->
        LET dt == ToDatetime(tbl[k].time)
        IN  Assign(tbl[k], [datetime |-> dt, hour |-> HourOf(dt)])]

\* a <= b in the order sort_values puts datetimes in (NaT last)
DatetimeLeq(a, b) ==
    IF a.t = "NaT" THEN b.t = "NaT" ELSE (b.t = "NaT" \/ a.v <= b.v)

Reorder(tbl, p) == [k \in DOMAIN tbl |-> tbl[p[k]]]

\* sort_by_time=False: the table is left in the order it came in
NoSort(tbl) == {tbl}

\* df.sort_values('datetime').reset_index(drop=True): the default sort kind
\* (quicksort) is not stable, so rows of equal datetime may come out in any
\* order
SortValues(tbl) ==
    IF tbl = <<>> THEN {<<>>}
    ELSE { Reorder(tbl, p) : p \in
             { q \in Permutations(DOMAIN tbl) :
                 \A i, j \in DOMAIN tbl :
                     i < j => DatetimeLeq(tbl[q[i]].datetime, tbl[q[j]].datetime) } }

\* pd.Timedelta(hours=24), (days=7), (days=30), in seconds
Window24h == 24 * 3600
Window7d  == 7 * 24 * 3600
Window30d == 30 * 24 * 3600

\* the left edge of the window taken as closed
InWindowClosedLeft(tj, start_bound) == tj >= start_bound

\* rolling(window=Timedelta) closes the window on the right only: a row
\* belongs to it when its time is strictly after start_bound = t_i - window
InWindow(tj, start_bound) == tj > start_bound

\* the first row of the window of row i: the window bounds are computed in one
\* pass over the sorted index, the start of a window never before the start
\* of the previous one
RECURSIVE WindowStart(_, _, _)
WindowStart(tbl, i, w) ==
    IF i = 1 THEN 1
    ELSE LET prev == WindowStart(tbl, i - 1, w)
             hit  == {j \in prev .. (i - 1) :
                         InWindow(tbl[j].datetime.v, tbl[i].datetime.v - w)}
         IN  IF hit = {} THEN i ELSE CHOOSE j \in hit : \A k \in hit : j <= k

\* the rows of the window of row i that hold a magnitude (nan is skipped)
Observations(tbl, i, w) ==
    {j \in WindowStart(tbl, i, w) .. i : ~IsNull(tbl[j].magnitude)}

RECURSIVE SumMag(_, _)
SumMag(tbl, S) ==
    IF S = {} THEN 0
    ELSE LET j == CHOOSE k \in S : TRUE
         IN  tbl[j].magnitude.v + SumMag(tbl, S \ {j})

RECURSIVE SumSqMag(_, _)
SumSqMag(tbl, S) ==
    IF S = {} THEN 0
    ELSE LET j == CHOOSE k \in S : TRUE
         IN  tbl[j].magnitude.v * tbl[j].magnitude.v + SumSqMag(tbl, S \ {j})

\* the mean taken over every row of the window, a nan counted as an
\* observation of 0
RollingMeanCountsNan(tbl, i, w) ==
    LET obs == Observations(tbl, i, w)
    IN  IF obs = {} THEN NaN
        ELSE Ratio(SumMag(tbl, obs), i - WindowStart(tbl, i, w) + 1)

\* .rolling(window, min_periods=1).mean()
RollingMean(tbl, i, w) ==
    LET obs == Observations(tbl, i, w)
    IN  IF obs = {} THEN NaN ELSE Ratio(SumMag(tbl, obs), Cardinality(obs))

\* .rolling(window, min_periods=1).count()
RollingCount(tbl, i, w) ==
    LET obs == Observations(tbl, i, w)
    IN  IF obs = {} THEN NaN ELSE Q(Cardinality(obs), 1)

\* .rolling(window, min_periods=1).std(): the sample standard deviation
\* (ddof=1), the square root of v/d; nan with fewer than two observations
RollingStd(tbl, i, w) ==
    LET obs == Observations(tbl, i, w)
        n   == Cardinality(obs)
    IN  IF n < 2 THEN NaN
        ELSE [t |-> "sqrt",
              v |-> n * SumSqMag(tbl, obs) - SumMag(tbl, obs) * SumMag(tbl, obs),
              d |-> n * (n - 1)]

\* df['magnitude'].shift(k)
Shift(tbl, i, k) == IF i <= k THEN NaN ELSE tbl[i - k].magnitude

\* df['datetime'].diff().dt.total_seconds() / 3600, then fillna(0)
TimeSinceLast(tbl, i) ==
    IF i = 1 THEN Q(0, 1)
    ELSE IF tbl[i].datetime.t = "NaT" \/ tbl[i - 1].datetime.t = "NaT" THEN Q(0, 1)
    ELSE Ratio(tbl[i].datetime.v - tbl[i - 1].datetime.v, 3600)

\* what create_lag_features raises on the sorted table: a time-based rolling
\* window refuses an index holding NaT (ValueError) and a magnitude column of
\* dtype object (DataError)
LagRaises(tbl) ==
    IF \E k \in DOMAIN tbl : tbl[k].datetime.t = "NaT" THEN "ValueError"
    ELSE IF \A k \in DOMAIN tbl : tbl[k].magnitude.t = "NoneType" THEN "DataError"
    ELSE NoError

\* create_lag_features on the table once sorted
CreateLagFeatures(tbl) ==
    [i \in DOMAIN tbl |->
        Assign(tbl[i],
           [time_since_last   |-> TimeSinceLast(tbl, i),
            mag_lag1          |-> Shift(tbl, i, 1),
            mag_lag2          |-> Shift(tbl, i, 2),
            mag_lag3          |-> Shift(tbl, i, 3),
            mag_rolling_24h   |-> RollingMean(tbl, i, Window24h),
            mag_rolling_7d    |-> RollingMean(tbl, i, Window7d),
            mag_rolling_30d   |-> RollingMean(tbl, i, Window30d),
            count_rolling_24h |-> RollingCount(tbl, i, Window24h),
            count_rolling_7d  |-> RollingCount(tbl, i, Window7d),
            mag_std_24h       |-> RollingStd(tbl, i, Window24h)])]

\* x >= n and x <= n for a float cell x and n in tenths (nan compares False)
Geq(x, n) == ~IsNull(x) /\ x.v >= n * x.d
Leq(x, n) == ~IsNull(x) /\ x.v <= n * x.d

\* -x: the sign flipped instead of dropped
NegCell(x) == IF IsNull(x) THEN x ELSE Q(0 - x.v, x.d)

\* Series.abs() on one cell
AbsCell(x) == IF IsNull(x) THEN x ELSE Q(IF x.v < 0 THEN 0 - x.v ELSE x.v, x.d)

\* abs() and the comparisons raise TypeError on an object column of None
LocationRaises(tbl) ==
    IF \E k \in DOMAIN tbl :
          tbl[k].latitude.t = "NoneType" \/ tbl[k].longitude.t = "NoneType"
    THEN "TypeError" ELSE NoError

\* create_location_features
CreateLocationFeatures(tbl) ==
    [k \in DOMAIN tbl |->
        Assign(tbl[k],
           [abs_latitude |-> AbsCell(tbl[k].latitude),
            pacific_ring |->
                IF \/ Geq(tbl[k].longitude, 1200) /\ Leq(tbl[k].longitude, -700)
                   \/ Geq(tbl[k].latitude, -600) /\ Leq(tbl[k].latitude, 600)
                THEN Q(1, 1) ELSE Q(0, 1)])]

\* the rows of tbl whose position is in keep, in their order
RECURSIVE Subseq(_, _, _)
Subseq(tbl, keep, i) ==
    IF i > Len(tbl) THEN <<>>
    ELSE (IF i \in keep THEN <<tbl[i]>> ELSE <<>>) \o Subseq(tbl, keep, i + 1)

\* clean_data without the drop_duplicates step
KeepDuplicates(tbl) == tbl

\* drop_duplicates(subset=['id']) keeping the last row of each id
DropDuplicatesKeepLast(tbl) ==
    Subseq(tbl, {i \in DOMAIN tbl :
                    \A j \in (i + 1) .. Len(tbl) : tbl[j].id # tbl[i].id}, 1)

\* df.drop_duplicates(subset=['id'], keep='first')
DropDuplicates(tbl) ==
    Subseq(tbl, {i \in DOMAIN tbl :
                    \A j \in 1 .. (i - 1) : tbl[j].id # tbl[i].id}, 1)

critical_cols == {"magnitude", "time", "longitude", "latitude"}

\* df.dropna(subset=critical_cols)
DropNa(tbl) ==
    Subseq(tbl, {i \in DOMAIN tbl :
                    \A c \in critical_cols : ~IsNull(tbl[i][c])}, 1)

\* df.select_dtypes(include=[np.number]).columns: the float columns; id is a
\* column of strings, datetime of timestamps, and a column of None is object
NumericCols(tbl) ==
    IF tbl = <<>> THEN {}
    ELSE {c \in DOMAIN tbl[1] \ {"id"} :
             \A k \in DOMAIN tbl :
                 tbl[k][c].t \in {"float", "nan", "sqrt", "median"}}

\* a < b for two cells of one float column (sqrt is monotone)
CellLess(a, b) == a.v * b.d < b.v * a.d

\* df[col].median(): nan when the column holds no value, the middle value of
\* an odd number of values, the mean of the two middle values otherwise
Median(tbl, c) ==
    LET S == {k \in DOMAIN tbl : ~IsNull(tbl[k][c])}
        n == Cardinality(S)
        rank(j) == 1 + Cardinality({k \in S :
                          \/ CellLess(tbl[k][c], tbl[j][c])
                          \/ (~CellLess(tbl[j][c], tbl[k][c]) /\ k < j)})
        lo == tbl[CHOOSE j \in S : rank(j) = (n + 1) \div 2][c]
        hi == tbl[CHOOSE j \in S : rank(j) = (n \div 2) + 1][c]
    IN  IF n = 0 THEN NaN
        ELSE IF lo = hi THEN lo
        ELSE IF lo.t = "float" /\ hi.t = "float"
             THEN Ratio(lo.v * hi.d + hi.v * lo.d, 2 * lo.d * hi.d)
        ELSE [t |-> "median", lo |-> lo, hi |-> hi]

\* every nan of a numeric column replaced by 0
FillNaZero(tbl) ==
    [k \in DOMAIN tbl |->
        [c \in DOMAIN tbl[k] |->
            IF c \in NumericCols(tbl) /\ IsNull(tbl[k][c]) THEN Q(0, 1)
            ELSE tbl[k][c]]]

\* for col in numeric_cols: df[col] = df[col].fillna(df[col].median())
FillNa(tbl) ==
    LET num == NumericCols(tbl)
    IN  [k \in DOMAIN tbl |->
            [c \in DOMAIN tbl[k] |->
                IF c \in num /\ IsNull(tbl[k][c]) THEN Median(tbl, c)
                ELSE tbl[k][c]]]

\* df[df['magnitude'] <= 10], then df[df['magnitude'] >= 0]
RemoveOutliers(tbl) ==
    LET upper == Subseq(tbl, {i \in DOMAIN tbl : Leq(tbl[i].magnitude, 100)}, 1)
    IN  Subseq(upper, {i \in DOMAIN upper : Geq(upper[i].magnitude, 0)}, 1)

\* df['depth'] = df['depth'].abs()
DepthAbs(tbl) ==
    [k \in DOMAIN tbl |-> [tbl[k] EXCEPT !.depth = AbsCell(@)]]

\* the rows clean_data has left when it reaches the depth column
Kept(tbl) == RemoveOutliers(FillNa(DropNa(DropDuplicates(tbl))))

\* abs() raises TypeError on a depth column of None that still holds a row
CleanRaises(tbl) ==
    IF \E k \in DOMAIN Kept(tbl) : Kept(tbl)[k].depth.t = "NoneType"
    THEN "TypeError" ELSE NoError

CleanData(tbl) == DepthAbs(Kept(tbl))

\* ---- transform_data.main, one action per step ----
TfFail(err) ==
    /\ tf_error' = err
    /\ tpc' = "failed"
    /\ UNCHANGED <<table, output_table>>

TfLoad ==
    /\ UNCHANGED <<extVars, gateVars, dagVars, reqVars, trainVars, apiVars>>
    /\ tpc = "start"
    /\ IF LoadRaises(features) THEN TfFail("ValueError")
       ELSE /\ table' = LoadGeojson(features)
            /\ tpc' = "loaded"
            /\ UNCHANGED <<tf_error, output_table>>
    /\ UNCHANGED <<features, cleanings>>

TfTimeFeatures ==
    /\ UNCHANGED <<extVars, gateVars, dagVars, reqVars, trainVars, apiVars>>
    /\ tpc = "loaded"
    /\ table' = CreateTimeFeatures(table)
    /\ tpc' = "timed"
    /\ UNCHANGED <<features, tf_error, output_table, cleanings>>

TfLagFeatures ==
    /\ UNCHANGED <<extVars, gateVars, dagVars, reqVars, trainVars, apiVars>>
    /\ tpc = "timed"
    /\ \E sorted \in SortValues(table) :
          IF LagRaises(sorted) # NoError THEN TfFail(LagRaises(sorted))
          ELSE /\ table' = CreateLagFeatures(sorted)
               /\ tpc' = "lagged"
               /\ UNCHANGED <<tf_error, output_table>>
    /\ UNCHANGED <<features, cleanings>>

TfLocationFeatures ==
    /\ UNCHANGED <<extVars, gateVars, dagVars, reqVars, trainVars, apiVars>>
    /\ tpc = "lagged"
    /\ IF LocationRaises(table) # NoError THEN TfFail(LocationRaises(table))
       ELSE /\ table' = CreateLocationFeatures(table)
            /\ tpc' = "located"
            /\ UNCHANGED <<tf_error, output_table>>
    /\ UNCHANGED <<features, cleanings>>

TfClean ==
    /\ UNCHANGED <<extVars, gateVars, dagVars, reqVars, trainVars, apiVars>>
    /\ tpc = "located"
    /\ IF CleanRaises(table) # NoError THEN TfFail(CleanRaises(table))
       ELSE /\ table' = CleanData(table)
            /\ tpc' = "cleaned"
            /\ UNCHANGED <<tf_error, output_table>>
    /\ UNCHANGED <<features, cleanings>>

\* the closing sort_values('datetime') and to_parquet
TfSave ==
    /\ UNCHANGED <<extVars, gateVars, dagVars, reqVars, trainVars, apiVars>>
    /\ tpc = "cleaned"
    /\ \E sorted \in SortValues(table) :
          /\ table' = sorted
          /\ output_table' = [written |-> TRUE, rows |-> sorted]
    /\ tpc' = "done"
    /\ UNCHANGED <<features, tf_error, cleanings>>

TfInit ==
    /\ features \in InputFiles
    /\ table = <<>>
    /\ tpc = "start"
    /\ tf_error = NoError
    /\ output_table = NoOutput
    /\ cleanings = <<>>

TfNext ==
    \/ TfLoad
    \/ TfTimeFeatures
    \/ TfLagFeatures
    \/ TfLocationFeatures
    \/ TfClean
    \/ TfSave

\* ---- clean_data applied to a table, and again to its own result ----
MaxCleanings == 2          \* successive applications of clean_data

\* the tables clean_data is applied to
CleanInputs == {<<>>} \cup {LoadGeojson(f) : f \in InputFiles \ {<<>>}}

CleanAgain ==
    /\ UNCHANGED <<extVars, gateVars, dagVars, reqVars, trainVars, apiVars>>
    /\ tpc = "cleaning"
    /\ tf_error = NoError
    /\ Len(cleanings) <= MaxCleanings
    /\ LET t == cleanings[Len(cleanings)]
       IN  IF CleanRaises(t) # NoError
           THEN tf_error' = CleanRaises(t) /\ UNCHANGED cleanings
           ELSE cleanings' = Append(cleanings, CleanData(t)) /\ UNCHANGED tf_error
    /\ UNCHANGED <<features, table, tpc, output_table>>

CleanInit ==
    /\ features = <<>>
    /\ table = <<>>
    /\ tpc = "cleaning"
    /\ tf_error = NoError
    /\ output_table = NoOutput
    /\ \E t \in CleanInputs : cleanings = <<t>>

\* transform_data while it does not run
TfIdle ==
    /\ features = <<>>
    /\ table = <<>>
    /\ tpc = "idle"
    /\ tf_error = NoError
    /\ output_table = NoOutput
    /\ cleanings = <<>>

(***************************************************************************)
(* download_historical.py: one call of fetch_interval, attempt by attempt. *)
(* session.get runs the mounted HTTPAdapter, whose Retry object decides    *)
(* after every attempt whether another one is made.                        *)
(***************************************************************************)
SessionRetries == 3        \* _make_session(retries=3, ...) in main

status_forcelist == {500, 502, 503, 504}

\* the statuses a Retry-After header makes retryable
\* (respect_retry_after_header=True)
RETRY_AFTER_STATUS_CODES == {413, 429, 503}

Statuses == {200, 404, 429, 500, 501, 503}

\* what one HTTP attempt can meet: a response, with or without a Retry-After
\* header, a failure to connect, or a failure (timeout) reading the response
AttemptOutcomes ==
    [kind : {"response"}, status : Statuses, retry_after : BOOLEAN]
    \cup [kind : {"connect_error", "read_error"}, status : {0},
          retry_after : {FALSE}]

\* Retry.is_retry(method, status_code, has_retry_after) for a GET
IsRetry(status, has_retry_after, total) ==
    \/ status \in status_forcelist
    \/ (total # 0 /\ has_retry_after /\ status \in RETRY_AFTER_STATUS_CODES)

\* Retry.is_exhausted(): some counter fell below zero
IsExhausted(total, connect, read) ==
    total < 0 \/ connect < 0 \/ read < 0

\* one attempt of HTTPConnectionPool.urlopen and Retry.increment
ReqAttempt ==
    /\ UNCHANGED <<extVars, gateVars, dagVars, tfVars, trainVars, apiVars>>
    /\ rpc = "sending"
    /\ \E o \in AttemptOutcomes :
          LET again == o.kind # "response"
                       \/ IsRetry(o.status, o.retry_after, retry_total)
              total   == IF again THEN retry_total - 1 ELSE retry_total
              connect == IF o.kind = "connect_error" THEN retry_connect - 1
                         ELSE retry_connect
              read    == IF o.kind = "read_error" THEN retry_read - 1
                         ELSE retry_read
          IN  /\ attempt_log' = Append(attempt_log, o)
              /\ retry_total' = total
              /\ retry_connect' = connect
              /\ retry_read' = read
              /\ rpc' = IF ~again THEN "responded"
                        ELSE IF ~IsExhausted(total, connect, read) THEN "sending"
                        \* raise_on_status=False: the last response is returned
                        ELSE IF o.kind = "response" THEN "responded"
                        ELSE "raised"
    /\ UNCHANGED fetch_result

\* fetch_interval after session.get returned: any status but 200 raises
\* HTTPError, which the except clause reports and re-raises
ReqCheckStatus ==
    /\ UNCHANGED <<extVars, gateVars, dagVars, tfVars, trainVars, apiVars>>
    /\ rpc = "responded"
    /\ fetch_result' =
          IF attempt_log[Len(attempt_log)].status = 200 THEN "returned"
          ELSE "failed"
    /\ rpc' = "done"
    /\ UNCHANGED <<retry_total, retry_connect, retry_read, attempt_log>>

\* session.get raised a RequestException: reported and re-raised
ReqExcept ==
    /\ UNCHANGED <<extVars, gateVars, dagVars, tfVars, trainVars, apiVars>>
    /\ rpc = "raised"
    /\ fetch_result' = "failed"
    /\ rpc' = "done"
    /\ UNCHANGED <<retry_total, retry_connect, retry_read, attempt_log>>

ReqInit ==
    /\ rpc = "sending"
    /\ retry_total = SessionRetries
    /\ retry_connect = SessionRetries
    /\ retry_read = SessionRetries
    /\ attempt_log = <<>>
    /\ fetch_result = "pending"

ReqNext ==
    \/ ReqAttempt
    \/ ReqCheckStatus
    \/ ReqExcept

\* fetch_interval while it does not run
ReqIdle ==
    /\ rpc = "idle"
    /\ retry_total = SessionRetries
    /\ retry_connect = SessionRetries
    /\ retry_read = SessionRetries
    /\ attempt_log = <<>>
    /\ fetch_result = "pending"

(***************************************************************************)
(* train.py: prepare_features with target = 'magnitude', applied to the    *)
(* table transform_data wrote.                                             *)
(***************************************************************************)

\* exclude_cols once the magnitude columns are added for target 'magnitude'
exclude_cols ==
    {"id", "time", "datetime", "place", "event_type", "status", "mag_type",
     "tsunami", "significance", "gap", "dmin", "rms", "nst", "year", "month",
     "day", "hour", "day_of_week", "day_of_year", "week_of_year",
     "magnitude", "mag_lag1", "mag_lag2", "mag_lag3"}

\* feature_cols: the columns that are not excluded and whose dtype is int64
\* or float64
FeatureCols(tbl) == NumericCols(tbl) \ exclude_cols

\* X = df[feature_cols].copy(); X = X.fillna(X.median())
PrepareFeatures(tbl) ==
    [k \in DOMAIN tbl |->
        [c \in FeatureCols(tbl) |->
            IF IsNull(tbl[k][c]) THEN Median(tbl, c) ELSE tbl[k][c]]]

\* train.py loads the parquet file transform_data wrote and prepares X
TrainPrepare ==
    /\ UNCHANGED <<extVars, gateVars, dagVars, tfVars, reqVars, apiVars>>
    /\ train_pc = "idle"
    /\ tpc = "done" /\ output_table.written
    /\ X' = PrepareFeatures(output_table.rows)
    /\ train_pc' = "prepared"

TrainNext ==
    \/ TfNext
    \/ TrainPrepare

\* train.py while it does not run
TrainIdle ==
    /\ train_pc = "idle"
    /\ X = <<>>

(***************************************************************************)
(* api/app.py: the handler of POST /predict.  The handler is a coroutine   *)
(* without an await, so requests are handled one at a time.  A request is  *)
(* the number of feature rows it carries.                                  *)
(***************************************************************************)
MaxRequests == 3           \* requests the API receives
MaxRows     == 2           \* feature rows one request may hold

StatusLabels == {200, 400, 500}

\* REQUEST_COUNT.labels(method='POST', endpoint='/predict', status=st).inc()
CountInc(st) == [request_count EXCEPT ![st] = @ + 1]

\* start_time = time.time(); ACTIVE_REQUESTS.inc()
ApiReceive ==
    /\ UNCHANGED <<extVars, gateVars, dagVars, tfVars, reqVars, trainVars>>
    /\ apc = "idle"
    /\ served < MaxRequests
    /\ \E rows \in 0 .. MaxRows : request' = [rows |-> rows]
    /\ active_requests' = active_requests + 1
    /\ served' = served + 1
    /\ http_status' = 0
    /\ apc' = "load"
    /\ UNCHANGED <<model_cache, request_count>>

\* what load_model does: the cached model, a model loaded from the registry
\* and cached, ValueError when the registry has no version in the stage, or
\* any other exception of the MLflow client
LoadOutcomes ==
    IF model_cache THEN {"cached"} ELSE {"loaded", "ValueError", "Exception"}

\* model, model_info = load_model(request.model_name, request.stage)
ApiLoadModel ==
    /\ UNCHANGED <<extVars, gateVars, dagVars, tfVars, reqVars, trainVars>>
    /\ apc = "load"
    /\ \E out \in LoadOutcomes :
          /\ model_cache' = (model_cache \/ out = "loaded")
          /\ apc' = IF out = "ValueError" THEN "except ValueError"
                    ELSE IF out = "Exception" THEN "except Exception"
                    ELSE "validate"
    /\ UNCHANGED <<request, active_requests, request_count, http_status,
                   served>>

\* features_df = pd.DataFrame(request.features); if features_df.empty: count
\* a 400, decrement the gauge and raise HTTPException(400) inside the try
\* block.  HTTPException is not a ValueError, so "except Exception" catches it.
ApiValidate ==
    /\ UNCHANGED <<extVars, gateVars, dagVars, tfVars, reqVars, trainVars>>
    /\ apc = "validate"
    /\ IF request.rows = 0
       THEN /\ request_count' = CountInc(400)
            /\ active_requests' = active_requests - 1
            /\ apc' = "except Exception"
       ELSE /\ apc' = "predict"
            /\ UNCHANGED <<request_count, active_requests>>
    /\ UNCHANGED <<request, model_cache, http_status, served>>

\* scaling and model.predict: they return, raise ValueError (a feature
\* matrix the scaler or the model rejects) or raise another exception; when
\* they return, the latency is observed, a 200 counted and the gauge
\* decremented
ApiPredict ==
    /\ UNCHANGED <<extVars, gateVars, dagVars, tfVars, reqVars, trainVars>>
    /\ apc = "predict"
    /\ \E out \in {"ok", "ValueError", "Exception"} :
          IF out = "ok"
          THEN /\ request_count' = CountInc(200)
               /\ active_requests' = active_requests - 1
               /\ apc' = "respond"
          ELSE /\ apc' = "except " \o out
               /\ UNCHANGED <<request_count, active_requests>>
    /\ UNCHANGED <<request, model_cache, http_status, served>>

\* return PredictionResponse(...): the response is built inside the try
\* block; pydantic's ValidationError, raised when the predictions are not a
\* list of floats, is a ValueError
ApiRespond ==
    /\ UNCHANGED <<extVars, gateVars, dagVars, tfVars, reqVars, trainVars>>
    /\ apc = "respond"
    /\ \E valid \in BOOLEAN :
          IF valid
          THEN http_status' = 200 /\ apc' = "idle"
          ELSE apc' = "except ValueError" /\ UNCHANGED http_status
    /\ UNCHANGED <<request, model_cache, active_requests, request_count,
                   served>>

\* except ValueError: count a 400, decrement the gauge, answer 400
ApiExceptValueError ==
    /\ UNCHANGED <<extVars, gateVars, dagVars, tfVars, reqVars, trainVars>>
    /\ apc = "except ValueError"
    /\ request_count' = CountInc(400)
    /\ active_requests' = active_requests - 1
    /\ http_status' = 400
    /\ apc' = "idle"
    /\ UNCHANGED <<request, model_cache, served>>

\* except Exception: count a 500, decrement the gauge, answer 500
ApiExceptException ==
    /\ UNCHANGED <<extVars, gateVars, dagVars, tfVars, reqVars, trainVars>>
    /\ apc = "except Exception"
    /\ request_count' = CountInc(500)
    /\ active_requests' = active_requests - 1
    /\ http_status' = 500
    /\ apc' = "idle"
    /\ UNCHANGED <<request, model_cache, served>>

\* the API after startup: the default model was loaded and cached, or not
ApiInit ==
    /\ apc = "idle"
    /\ request = [rows |-> 0]
    /\ model_cache \in BOOLEAN
    /\ active_requests = 0
    /\ request_count = [st \in StatusLabels |-> 0]
    /\ http_status = 0
    /\ served = 0

ApiNext ==
    \/ ApiReceive
    \/ ApiLoadModel
    \/ ApiValidate
    \/ ApiPredict
    \/ ApiRespond
    \/ ApiExceptValueError
    \/ ApiExceptException

\* the API while it serves no request
ApiIdle ==
    /\ apc = "idle"
    /\ request = [rows |-> 0]
    /\ model_cache = FALSE
    /\ active_requests = 0
    /\ request_count = [st \in StatusLabels |-> 0]
    /\ http_status = 0
    /\ served = 0

\* the variables of the quality gate and of the DAG while neither runs
GateIdle ==
    /\ df = [columns |-> {}, groups |-> <<>>]
    /\ fail_on_error = TRUE
    /\ qpc = "idle"
    /\ results = NoResults
    /\ gate_error = FALSE
    /\ gate_exit = Running

DagIdle ==
    /\ task_state = <<>>
    /\ try_number = <<>>
    /\ xcom = <<>>
    /\ returncode = <<>>
    /\ raw_file = "absent"
    /\ processed_file = "absent"

InitExtract == ExtInit /\ GateIdle /\ DagIdle /\ TfIdle /\ ReqIdle /\ TrainIdle /\ ApiIdle

SpecExtract == InitExtract /\ [][ExtNext]_vars

\* download_historical.main before it is started
ExtIdle ==
    /\ start_year = FirstYear /\ end_year = FirstYear /\ interval_years = 1
    /\ combine = FALSE /\ use_mock = FALSE
    /\ pc = "idle"
    /\ current_start = 0
    /\ intervals = <<>>
    /\ idx = 1
    /\ all_features = <<>>
    /\ successful_intervals = <<>>
    /\ failed_intervals = <<>>
    /\ responses = <<>>
    /\ summary = [successful |-> 0, total |-> 0, failed |-> 0]
    /\ combined_data = NoCombined
    /\ exit_status = Running

InitGate == GateInit /\ ExtIdle /\ DagIdle /\ TfIdle /\ ReqIdle /\ TrainIdle /\ ApiIdle

SpecGate == InitGate /\ [][GateNext]_vars

InitTransform == TfInit /\ ExtIdle /\ GateIdle /\ DagIdle /\ ReqIdle /\ TrainIdle /\ ApiIdle

SpecTransform == InitTransform /\ [][TfNext]_vars

InitClean == CleanInit /\ ExtIdle /\ GateIdle /\ DagIdle /\ ReqIdle /\ TrainIdle /\ ApiIdle

SpecClean == InitClean /\ [][CleanAgain]_vars

InitRequest == ReqInit /\ ExtIdle /\ GateIdle /\ DagIdle /\ TfIdle /\ TrainIdle /\ ApiIdle

SpecRequest == InitRequest /\ [][ReqNext]_vars

InitTrain == TfInit /\ ExtIdle /\ GateIdle /\ DagIdle /\ ReqIdle /\ TrainIdle /\ ApiIdle

SpecTrain == InitTrain /\ [][TrainNext]_vars

InitApi == ApiInit /\ ExtIdle /\ GateIdle /\ DagIdle /\ TfIdle /\ ReqIdle /\ TrainIdle

SpecApi == InitApi /\ [][ApiNext]_vars


(***************************************************************************)
(* earthquake_etl_dag.py                                                   *)
(*                                                                         *)
(* One DAG run.  A task instance is none, up_for_retry, success, failed or *)
(* upstream_failed; one action is one attempt of a task (its callable run  *)
(* to its return or its exception).  A file on disk is absent, stale (left *)
(* by an earlier run) or fresh (written in this run).                      *)
(***************************************************************************)
Retries == 2               \* default_args['retries']

Tasks == <<"extract_data", "quality_check", "transform_data", "upload_to_minio",
           "version_data", "generate_profiling_report", "train_model">>

NumTasks == Len(Tasks)

CombinedPath  == "data/raw/earthquakes_combined.geojson"
ProcessedPath == "data/processed/earthquakes_processed.parquet"

\* upstream condition that lets a task run once its upstream has finished,
\* successfully or not (trigger rule all_done)
UpstreamDone(k) ==
    IF k = 1 THEN TRUE ELSE task_state[k - 1] \in {"success", "failed"}

\* upstream condition that lets a task run as soon as its upstream task has
\* been scheduled, whatever became of it
UpstreamStarted(k) == IF k = 1 THEN TRUE ELSE task_state[k - 1] # "none"

\* extract_task >> quality_check_task >> ... >> train_task with the default
\* trigger rule: a task runs only when its upstream task succeeded
UpstreamOk(k) == IF k = 1 THEN TRUE ELSE task_state[k - 1] = "success"

\* the scheduler may start (or retry) task k
TaskReady(k) == task_state[k] \in {"none", "up_for_retry"} /\ UpstreamOk(k)

\* os.path.exists on a path pulled from XCom
Exists(path) ==
    IF path = CombinedPath THEN raw_file # "absent"
    ELSE IF path = ProcessedPath THEN processed_file # "absent"
    ELSE FALSE

\* an attempt that ends with an exception is retried once more than
\* default_args allows
AttemptEndsExtraRetry(k, ok, value, rc) ==
    /\ try_number' = [try_number EXCEPT ![k] = @ + 1]
    /\ returncode' = [returncode EXCEPT ![k] = rc]
    /\ IF ok
       THEN /\ task_state' = [task_state EXCEPT ![k] = "success"]
            /\ xcom' = [xcom EXCEPT ![k] = value]
       ELSE /\ task_state' = [task_state EXCEPT ![k] =
                                 IF try_number[k] + 1 <= Retries + 1
                                 THEN "up_for_retry" ELSE "failed"]
            /\ xcom' = xcom

\* task k ends an attempt: success and its return value, or an exception,
\* retried while attempts remain (retries = 2)
AttemptEnds(k, ok, value, rc) ==
    /\ try_number' = [try_number EXCEPT ![k] = @ + 1]
    /\ returncode' = [returncode EXCEPT ![k] = rc]
    /\ IF ok
       THEN /\ task_state' = [task_state EXCEPT ![k] = "success"]
            /\ xcom' = [xcom EXCEPT ![k] = value]
       ELSE /\ task_state' = [task_state EXCEPT ![k] =
                                 IF try_number[k] + 1 <= Retries
                                 THEN "up_for_retry" ELSE "failed"]
            /\ xcom' = xcom

\* extract_data: run download_historical.py --combine; fail on a non-zero
\* status or when the combined file does not exist
RunExtract ==
    /\ UNCHANGED <<extVars, gateVars, tfVars, reqVars, trainVars, apiVars>>
    /\ TaskReady(1)
    /\ \E rc \in {ExitZero, ExitFail}, wrote \in BOOLEAN :
          /\ raw_file' = IF wrote THEN "fresh" ELSE raw_file
          /\ AttemptEnds(1, rc = ExitZero /\ raw_file' # "absent", CombinedPath, rc)
    /\ UNCHANGED processed_file

\* quality_check: run data_quality_check.py (without --no-fail) on the file
\* extract_data returned; fail when the gate exits non-zero
RunQualityCheck ==
    /\ UNCHANGED <<extVars, gateVars, tfVars, reqVars, trainVars, apiVars>>
    /\ TaskReady(2)
    /\ LET combined_file == xcom[1]
       IN  IF ~Exists(combined_file)
           THEN AttemptEnds(2, FALSE, NoFile, returncode[2])
           ELSE \E raised \in BOOLEAN, passed \in BOOLEAN :
                   LET rc == GateExitStatus(raised, passed, TRUE)
                   IN  AttemptEnds(2, rc = ExitZero, combined_file, rc)
    /\ UNCHANGED <<raw_file, processed_file>>

\* transform_data: run transform_data.py on the file quality_check returned
RunTransform ==
    /\ UNCHANGED <<extVars, gateVars, tfVars, reqVars, trainVars, apiVars>>
    /\ TaskReady(3)
    /\ \E rc \in {ExitZero, ExitFail} :
          /\ processed_file' = IF rc = ExitZero THEN "fresh" ELSE processed_file
          /\ AttemptEnds(3, rc = ExitZero, ProcessedPath, rc)
    /\ UNCHANGED raw_file

\* upload_to_minio: fail when the processed file is missing or the upload
\* exits non-zero
RunUpload ==
    /\ UNCHANGED <<extVars, gateVars, tfVars, reqVars, trainVars, apiVars>>
    /\ TaskReady(4)
    /\ LET file == xcom[3]
       IN  IF ~Exists(file)
           THEN AttemptEnds(4, FALSE, NoFile, returncode[4])
           ELSE \E rc \in {ExitZero, ExitFail} :
                   AttemptEnds(4, rc = ExitZero, file, rc)
    /\ UNCHANGED <<raw_file, processed_file>>

\* version_data: a failing dvc command is only a warning
RunVersion ==
    /\ UNCHANGED <<extVars, gateVars, tfVars, reqVars, trainVars, apiVars>>
    /\ TaskReady(5)
    /\ LET file == xcom[4]
       IN  IF ~Exists(file)
           THEN AttemptEnds(5, FALSE, NoFile, returncode[5])
           ELSE \E rc \in {ExitZero, ExitFail} : AttemptEnds(5, TRUE, file, rc)
    /\ UNCHANGED <<raw_file, processed_file>>

\* generate_profiling_report: a failing report is only a warning
RunProfiling ==
    /\ UNCHANGED <<extVars, gateVars, tfVars, reqVars, trainVars, apiVars>>
    /\ TaskReady(6)
    /\ LET file == xcom[5]
       IN  IF ~Exists(file)
           THEN AttemptEnds(6, FALSE, NoFile, returncode[6])
           ELSE \E rc \in {ExitZero, ExitFail} : AttemptEnds(6, TRUE, file, rc)
    /\ UNCHANGED <<raw_file, processed_file>>

\* train_model: fail when the processed file is missing or training exits
\* non-zero
RunTrain ==
    /\ UNCHANGED <<extVars, gateVars, tfVars, reqVars, trainVars, apiVars>>
    /\ TaskReady(7)
    /\ LET file == xcom[6]
       IN  IF ~Exists(file)
           THEN AttemptEnds(7, FALSE, NoFile, returncode[7])
           ELSE \E rc \in {ExitZero, ExitFail} :
                   AttemptEnds(7, rc = ExitZero, file, rc)
    /\ UNCHANGED <<raw_file, processed_file>>

\* a task whose upstream task failed (or was itself skipped so) never runs
MarkUpstreamFailed ==
    /\ UNCHANGED <<extVars, gateVars, tfVars, reqVars, trainVars, apiVars>>
    /\ \E k \in 2 .. NumTasks :
          /\ task_state[k] = "none"
          /\ task_state[k - 1] \in {"failed", "upstream_failed"}
          /\ task_state' = [task_state EXCEPT ![k] = "upstream_failed"]
    /\ UNCHANGED <<try_number, xcom, returncode, raw_file, processed_file>>

DagInit ==
    /\ task_state = [k \in 1 .. NumTasks |-> "none"]
    /\ try_number = [k \in 1 .. NumTasks |-> 0]
    /\ xcom = [k \in 1 .. NumTasks |-> NoFile]
    /\ returncode = [k \in 1 .. NumTasks |-> Running]
    /\ raw_file \in {"absent", "stale"}
    /\ processed_file \in {"absent", "stale"}

DagNext ==
    \/ RunExtract
    \/ RunQualityCheck
    \/ RunTransform
    \/ RunUpload
    \/ RunVersion
    \/ RunProfiling
    \/ RunTrain
    \/ MarkUpstreamFailed

Init == DagInit /\ ExtIdle /\ GateIdle /\ TfIdle /\ ReqIdle /\ TrainIdle /\ ApiIdle

Spec == Init /\ [][DagNext]_vars

\* the scheduler keeps scheduling: a task that is ready to start, to be
\* retried or to be marked upstream_failed is eventually handled
SpecLive == Init /\ [][DagNext]_vars /\ WF_vars(DagNext)

\* the state of the run as the pipeline's state machine names it
RunState ==
    IF \E k \in 1 .. NumTasks : task_state[k] = "failed" THEN "Aborted"
    ELSE IF \A k \in 1 .. NumTasks : task_state[k] = "success" THEN "Done"
    ELSE "Running"

(***************************************************************************)
(* Properties of the orchestration.                                        *)
(***************************************************************************)

\* task k has made at least one attempt in this run
Started(k) == try_number[k] > 0

\* C1: quality_check starts only after extract_data succeeded, transform_data
\* only after quality_check succeeded with the gate process having exited 0;
\* once extract_data, quality_check or transform_data has finally failed the
\* run is Aborted and no later stage runs
C1_FailFastOrdering ==
    /\ Started(2) => task_state[1] = "success"
    /\ Started(3) => (task_state[2] = "success" /\ returncode[2] = ExitZero)
    /\ \A k \in 1 .. 3 :
          task_state[k] = "failed" =>
              /\ RunState = "Aborted"
              /\ \A j \in (k + 1) .. NumTasks :
                    /\ ~Started(j)
                    /\ task_state[j] \in {"none", "upstream_failed"}

\* the gate failed on its third attempt after extract_data had succeeded:
\* transform_data is skipped
C1_Witness ==
    /\ task_state[1] = "success"
    /\ task_state[2] = "failed" /\ try_number[2] = Retries + 1
    /\ returncode[2] = ExitFail
    /\ task_state[3] = "upstream_failed"

(***************************************************************************)
(* Properties of the extractor.                                            *)
(***************************************************************************)

\* generate_date_intervals has returned to main
Generated == ~use_mock /\ pc \in {"fetch", "combine", "done"}

RECURSIVE OkConcat(_)
\* the events of the responses that succeeded, in interval order
OkConcat(rs) ==
    IF rs = <<>> THEN <<>>
    ELSE (IF Head(rs).kind = "ok" THEN Head(rs).events ELSE <<>>)
         \o OkConcat(Tail(rs))

NumOk(rs) == Cardinality({j \in 1 .. Len(rs) : rs[j].kind = "ok"})

SeqRange(q) == {q[j] : j \in 1 .. Len(q)}

\* C2: when combine is requested, after the loop the merged dataset is the
\* concatenation, in interval order, of the events of the successful
\* intervals; no event of a failed interval is in it; the summary's
\* successful count and the metadata's intervals_combined equal the number of
\* successful intervals.  (The combined file is written exactly when the
\* merged dataset is not empty.)
C2_MergeOnlySuccessful ==
    (~use_mock /\ combine /\ pc \in {"combine", "done"}) =>
        /\ Len(responses) = Len(intervals)
        /\ all_features = OkConcat(responses)
        /\ \A j \in 1 .. Len(responses) :
              responses[j].kind # "ok" =>
                  \A e \in SeqRange(all_features) : e[1] # j
        /\ summary.successful = NumOk(responses)
        /\ summary.total = Len(intervals)
        /\ (pc = "done" => (combined_data.written <=> all_features # <<>>))
        /\ (combined_data.written =>
              /\ combined_data.features = OkConcat(responses)
              /\ combined_data.intervals_combined = NumOk(responses))

\* three intervals, the second failed after its response had arrived, the
\* first and the third delivered events: the combined file holds 2/3
C2_Witness ==
    /\ ~use_mock /\ combine /\ pc = "done"
    /\ Len(responses) = 3
    /\ responses[1].kind = "ok" /\ Len(responses[1].events) > 0
    /\ responses[2].kind = "save_error" /\ Len(responses[2].events) > 0
    /\ responses[3].kind = "ok" /\ Len(responses[3].events) > 0
    /\ combined_data.written
    /\ summary.successful = 2 /\ summary.total = 3

\* C3: when every interval of a run fails, main ends as a failure (non-zero
\* exit status)
C3_AllIntervalsFailedRunFails ==
    (/\ ~use_mock /\ pc = "done"
     /\ Len(intervals) > 0
     /\ \A j \in 1 .. Len(responses) : responses[j].kind # "ok")
        => exit_status = ExitFail

\* C4: for start_year <= end_year and interval_years >= 1 the returned list
\* is ascending by start date, each interval starts the day after the
\* previous one ends, and every interval's end is >= its start
C4_IntervalsOrderedContiguous ==
    (Generated /\ start_year <= end_year /\ interval_years >= 1) =>
        /\ \A k \in 1 .. Len(intervals) :
              DateOrdinal(intervals[k][2]) >= DateOrdinal(intervals[k][1])
        /\ \A k \in 1 .. Len(intervals) - 1 :
              /\ DateOrdinal(intervals[k + 1][1]) =
                     DateOrdinal(intervals[k][2]) + 1
              /\ DateOrdinal(intervals[k][1]) < DateOrdinal(intervals[k + 1][1])

\* three or more intervals over a range holding a leap year, so that an
\* interval starts on a day other than January 1
C4_Witness ==
    /\ Generated /\ start_year < end_year /\ interval_years >= 1
    /\ Len(intervals) >= 3
    /\ \E k \in 1 .. Len(intervals) : intervals[k][1][2] # 1

\* C5: for start_year <= end_year and interval_years >= 1 the intervals cover
\* exactly Jan 1 of start_year .. Dec 31 of end_year: the first starts on
\* Jan 1 of start_year, the last ends on Dec 31 of end_year, and every day of
\* the range lies in exactly one interval
C5_IntervalsCoverRange ==
    (Generated /\ start_year <= end_year /\ interval_years >= 1) =>
        /\ intervals # <<>>
        /\ intervals[1][1] = <<start_year, 1, 1>>
        /\ intervals[Len(intervals)][2] = <<end_year, 12, 31>>
        /\ \A d \in DayNumber(start_year, 1, 1) .. DayNumber(end_year, 12, 31) :
              Cardinality({k \in 1 .. Len(intervals) :
                              /\ DateOrdinal(intervals[k][1]) <= d
                              /\ d <= DateOrdinal(intervals[k][2])}) = 1

(***************************************************************************)
(* Properties of the quality gate.                                         *)
(***************************************************************************)

\* the messages of a check when it failed, nothing when it passed
FailingMessages(chk) == IF chk.passed THEN <<>> ELSE chk.messages

\* run_quality_checks has returned its report
ReportReturned == qpc \in {"report", "done"} /\ ~gate_error

\* C6: the report has passed = true exactly when all four checks passed, and
\* its violations are the messages of the failing checks, concatenated in the
\* order row-count, null, schema, range
C6_ReportAggregatesChecks ==
    ReportReturned =>
        LET rc == CheckRowCount(df)
            nv == CheckNullValues(df)
            sc == CheckSchema(df)
            vr == CheckValueRanges(df)
        IN  /\ results.passed <=>
                  (rc.passed /\ nv.passed /\ sc.passed /\ vr.passed)
            /\ results.violations =
                  FailingMessages(rc) \o FailingMessages(nv)
                  \o FailingMessages(sc) \o FailingMessages(vr)
            /\ Len(results.checks) = 4
            /\ \A m \in SeqRange(results.violations) :
                  \E k \in 1 .. 4 :
                      /\ ~results.checks[k].passed
                      /\ m \in SeqRange(results.checks[k].messages)

\* a report in which the row-count and the null check failed and the last
\* check (value ranges) passed
C6_Witness ==
    /\ ReportReturned
    /\ ~results.checks[1].passed
    /\ ~results.checks[2].passed
    /\ results.checks[4].passed
    /\ Len(results.violations) >= 2

\* C7: with fail_on_error the gate exits 0 when the report passed and
\* non-zero when the report failed or an error was raised; with --no-fail it
\* never exits non-zero
C7_GateExitStatus ==
    qpc = "done" =>
        /\ fail_on_error =>
              /\ (~gate_error /\ results.passed) => gate_exit = ExitZero
              /\ (gate_error \/ ~results.passed) => gate_exit = ExitFail
        /\ ~fail_on_error => gate_exit = ExitZero

\* --no-fail on a report that failed: exit status 0
C7_Witness ==
    /\ qpc = "done"
    /\ ~fail_on_error
    /\ ~gate_error /\ ~results.passed
    /\ gate_exit = ExitZero

\* C8: check_row_count passes iff the dataset has at least 100 rows (100
\* passes, 99 fails, 0 fails)
C8_RowCountBoundary ==
    Len(results.checks) >= 1 =>
        /\ results.checks[1].name = "row_count"
        /\ results.checks[1].passed <=> RowCount(df) >= 100
        /\ RowCount(df) = 100 => results.checks[1].passed
        /\ RowCount(df) = 99 => ~results.checks[1].passed
        /\ RowCount(df) = 0 => ~results.checks[1].passed

\* a dataset of exactly 100 rows passed the row-count check
C8_Witness ==
    /\ Len(results.checks) >= 1
    /\ RowCount(df) = 100
    /\ results.checks[1].passed

\* C9: for each key column check_null_values reports a violation iff the
\* column is absent or nulls / rows > 1%; exactly 1% passes
C9_NullRatioBoundary ==
    Len(results.checks) >= 2 =>
        /\ results.checks[2].name = "null_values"
        /\ \A c \in AllColumns :
              (\E m \in SeqRange(results.checks[2].messages) : m[2] = c)
              <=> \/ c \notin df.columns
                  \/ /\ RowCount(df) > 0
                     /\ NullCount(df, c) * 100 > RowCount(df)
        /\ results.checks[2].passed <=> results.checks[2].messages = <<>>

\* 1 null magnitude in 100 rows (exactly 1%): the null check passed
C9_Witness ==
    /\ Len(results.checks) >= 2
    /\ RowCount(df) = 100
    /\ NullCount(df, "magnitude") = 1
    /\ results.checks[2].passed

\* C10: check_schema reports a violation for a core column whenever any row
\* of the dataset holds a non-numeric value (a string) in that column,
\* whichever row that is
C10_SchemaFailsOnAnyNonNumeric ==
    Len(results.checks) >= 3 =>
        /\ results.checks[3].name = "schema"
        /\ \A c \in df.columns :
              "str" \in ColumnTypes(df, c) =>
                  /\ ~results.checks[3].passed
                  /\ <<"wrong_type", c>> \in SeqRange(results.checks[3].messages)

(***************************************************************************)
(* Properties of the transform.                                            *)
(***************************************************************************)

\* the rows of the table the Transform emitted
Out == output_table.rows

\* two float cells hold the same number
SameNum(a, b) == a.t = "float" /\ b.t = "float" /\ a.v * b.d = b.v * a.d

\* two cells are both null or hold the same number
SameCell(a, b) == (IsNull(a) /\ IsNull(b)) \/ SameNum(a, b)

\* the input has distinct ids, non-null core attributes and magnitudes in
\* [0, 10]: cleaning removes none of its rows (and its times are distinct,
\* which leaves the sorts one order only)
CleaningRemovesNothing ==
    /\ features # <<>>
    /\ \A i, j \in DOMAIN features :
          i # j => /\ Record(features[i]).id # Record(features[j]).id
                   /\ features[i].time # features[j].time
    /\ \A k \in DOMAIN features :
          /\ features[k].mag.t # "NoneType"
          /\ features[k].mag.v >= 0 /\ features[k].mag.v <= 100
          /\ features[k].time.t # "NoneType"
          /\ Len(features[k].coords) >= 2

\* C11: when cleaning removes no row, mag_lag1 of the first emitted row is
\* null and mag_lag1 of every later emitted row is the magnitude of the row
\* immediately before it
C11_LagOneOfEmittedTable ==
    (tpc = "done" /\ CleaningRemovesNothing) =>
        /\ Len(Out) = Len(features)
        /\ IsNull(Out[1].mag_lag1)
        /\ \A i \in 2 .. Len(Out) :
              SameNum(Out[i].mag_lag1, Out[i - 1].magnitude)

Windows ==
    { <<"mag_rolling_24h", Window24h>>, <<"mag_rolling_7d", Window7d>>,
      <<"mag_rolling_30d", Window30d>> }

\* the arithmetic mean of the magnitudes the rows of S hold
MeanOver(tbl, S) ==
    LET held == {j \in S : ~IsNull(tbl[j].magnitude)}
    IN  IF held = {} THEN NaN ELSE Ratio(SumMag(tbl, held), Cardinality(held))

\* C12 (as stated): after create_lag_features every rolling mean of row i is
\* the mean of the magnitudes of all rows whose time lies in the closed
\* interval [t_i - W, t_i]
C12_RollingMeanClosedInterval ==
    tpc = "lagged" =>
        \A i \in DOMAIN table : \A cw \in Windows :
            SameCell(table[i][cw[1]],
                MeanOver(table, {j \in DOMAIN table :
                    /\ table[j].datetime.v >= table[i].datetime.v - cw[2]
                    /\ table[j].datetime.v <= table[i].datetime.v}))

\* C12 (amended): after create_lag_features every rolling mean of row i is
\* the mean of the magnitudes held by the rows at or before row i of the
\* sorted table whose time lies in (t_i - W, t_i]: a row exactly W earlier is
\* outside the window
C12_RollingMeanHalfOpenInterval ==
    tpc = "lagged" =>
        \A i \in DOMAIN table : \A cw \in Windows :
            SameCell(table[i][cw[1]],
                MeanOver(table, {j \in 1 .. i :
                    table[j].datetime.v > table[i].datetime.v - cw[2]}))

\* create_lag_features ran on a table with a row exactly 30 days before
\* another and a row without magnitude
C12_Witness ==
    /\ tpc = "lagged"
    /\ \E i, j \in DOMAIN table :
          table[j].datetime.v = table[i].datetime.v - Window30d
    /\ \E k \in DOMAIN table : IsNull(table[k].magnitude)

\* the three-event fixture: magnitudes 3.0, 4.5, 2.0 at 0h, 6h, 30h
Fixture ==
    { Feature("a", F(30), HourMs(0), FullCoords),
      Feature("b", F(45), HourMs(6), <<F(100), F(200), F(-50)>>),
      Feature("c", F(20), HourMs(30), <<F(100), F(200)>>) }

IsFixture ==
    Len(features) = 3 /\ {features[k] : k \in DOMAIN features} = Fixture

\* C13: for the fixture the 24h rolling mean of the row at 30h is 2.0, both
\* when create_lag_features returns and in the emitted table
C13_FixtureRollingMean ==
    (IsFixture /\ tpc \in {"lagged", "done"}) =>
        /\ Len(table) = 3
        /\ \A k \in DOMAIN table :
              table[k].datetime.v = 30 * 3600 =>
                  SameNum(table[k].mag_rolling_24h, Q(20, 1))
        /\ tpc = "done" => Out = table

C13_Witness ==
    /\ IsFixture
    /\ tpc = "done"
    /\ Out[3].datetime.v = 30 * 3600
    /\ Out[2].datetime.v = Out[3].datetime.v - Window24h

\* C14: in the emitted table time_since_last of the first row is 0 and of
\* every later row the hours since the row before it; never null or negative
C14_TimeSinceLastOfEmittedTable ==
    tpc = "done" =>
        \A i \in DOMAIN Out :
            /\ ~IsNull(Out[i].time_since_last)
            /\ Out[i].time_since_last.v >= 0
            /\ i = 1 => SameNum(Out[i].time_since_last, Q(0, 1))
            /\ i > 1 => SameNum(Out[i].time_since_last,
                           Ratio(Out[i].datetime.v - Out[i - 1].datetime.v, 3600))

\* C15: the table clean_data returns has pairwise distinct ids, each id with
\* the values of its first occurrence in the table given; no null magnitude,
\* time, longitude or latitude; every magnitude in [0, 10]; every non-null
\* depth >= 0
C15_CleaningPostconditions ==
    Len(cleanings) >= 2 =>
        LET t == cleanings[1]
            r == cleanings[2]
        IN  /\ \A i, j \in DOMAIN r : i # j => r[i].id # r[j].id
            /\ \A k \in DOMAIN r :
                  \E i \in DOMAIN t :
                      /\ t[i].id = r[k].id
                      /\ \A j \in 1 .. (i - 1) : t[j].id # t[i].id
                      /\ \A c \in critical_cols : r[k][c] = t[i][c]
            /\ \A k \in DOMAIN r :
                  /\ \A c \in critical_cols : ~IsNull(r[k][c])
                  /\ Geq(r[k].magnitude, 0) /\ Leq(r[k].magnitude, 100)
                  /\ ~IsNull(r[k].depth) => Geq(r[k].depth, 0)

\* clean_data returned rows of a table that held a repeated id and a negative
\* depth
C15_Witness ==
    /\ Len(cleanings) >= 2
    /\ cleanings[2] # <<>>
    /\ \E i, j \in DOMAIN cleanings[1] :
          /\ i < j
          /\ cleanings[1][i].id = cleanings[1][j].id
          /\ cleanings[1][i].magnitude # cleanings[1][j].magnitude
    /\ \E k \in DOMAIN cleanings[1] :
          /\ ~IsNull(cleanings[1][k].depth)
          /\ cleanings[1][k].depth.v < 0
          /\ \E m \in DOMAIN cleanings[2] : cleanings[2][m].id = cleanings[1][k].id

\* C16: clean_data applied to its own result raises nothing and returns that
\* result unchanged: no row is removed by the second run
C16_CleaningIdempotent ==
    /\ Len(cleanings) >= 2 => tf_error = NoError
    /\ Len(cleanings) >= 3 => cleanings[3] = cleanings[2]

\* clean_data ran twice, the first run having removed a row and imputed a
\* depth
C16_Witness ==
    /\ Len(cleanings) >= 3
    /\ cleanings[2] # <<>>
    /\ Len(cleanings[2]) < Len(cleanings[1])
    /\ \E k \in DOMAIN cleanings[1] : cleanings[1][k].depth.t = "nan"

\* the rows of tbl are in non-decreasing order of occurrence time
TimeOrdered(tbl) ==
    \A i, j \in DOMAIN tbl :
        i < j => /\ tbl[i].datetime.t = "datetime"
                 /\ tbl[j].datetime.t = "datetime"
                 /\ tbl[i].datetime.v <= tbl[j].datetime.v

\* C17: the table create_lag_features returns is in ascending order of time,
\* its lag columns taken from the rows before in that order, and so are the
\* rows of the emitted table, whatever the order of the input
C17_TimeOrdering ==
    /\ tpc = "lagged" =>
          /\ TimeOrdered(table)
          /\ \A i \in DOMAIN table :
                /\ i > 1 => table[i].mag_lag1 = table[i - 1].magnitude
                /\ i > 2 => table[i].mag_lag2 = table[i - 2].magnitude
                /\ table[i].time_since_last.v >= 0
    /\ tpc = "done" => TimeOrdered(Out)

\* a table of three rows was emitted for an input given latest event first
C17_Witness ==
    /\ tpc = "done"
    /\ Len(Out) = 3
    /\ Len(features) = 3
    /\ features[1].time.v > features[2].time.v
    /\ features[2].time.v > features[3].time.v

\* C18: the Transform never ends normally with an empty table: an input
\* without events, or one of which no record survives cleaning, ends in an
\* error with no output written
C18_NoEmptyOutput ==
    /\ features = <<>> => tpc # "done" /\ ~output_table.written
    /\ tpc = "done" => Out # <<>>
    /\ output_table.written => Out # <<>>

\* an event with every attribute present and in range
ValidEvent(feat) ==
    /\ feat.mag.t # "NoneType" /\ feat.mag.v >= 0 /\ feat.mag.v <= 100
    /\ feat.time.t # "NoneType"
    /\ Len(feat.coords) = 3

Reattempted(k) == k < Len(attempt_log)

\* C20: one interval takes at most 1 + retries HTTP attempts; an attempt is
\* followed by another only when it met a 500, 502, 503 or 504 or a connection
\* failure, never when it met a 4xx; a fetch that ended without a 200 is
\* reported failed
C20_RequestRetryBoundedSelective ==
    /\ Len(attempt_log) <= 1 + SessionRetries
    /\ \A k \in DOMAIN attempt_log :
          Reattempted(k) =>
              \/ attempt_log[k].kind \in {"connect_error", "read_error"}
              \/ attempt_log[k].status \in {500, 502, 503, 504}
    /\ rpc = "done" =>
          (fetch_result = "failed" <=>
              ~(attempt_log[Len(attempt_log)].kind = "response"
                /\ attempt_log[Len(attempt_log)].status = 200))

(***************************************************************************)
(* Properties of the extraction loop.                                      *)
(***************************************************************************)

\* C21: between the fetch of an interval and the fetch of the next one the
\* fixed delay elapses, whether the fetch succeeded or failed
C21_DelayBetweenFetches ==
    \A k \in DOMAIN responses :
        k < Len(intervals) => responses[k].slept >= retry_delay

\* the entries of a result list that are about interval iv
EntriesFor(list, iv) ==
    {j \in DOMAIN list : list[j][1] = iv[1] /\ list[j][2] = iv[2]}

\* C28: the intervals are fetched one by one in ascending order, each once
\* whatever the earlier fetches met; every fetched interval is in exactly one
\* of the successful and failed lists, and after the loop the two lists
\* together hold as many entries as there are intervals
C28_EachIntervalFetchedOnce ==
    (~use_mock /\ pc \in {"fetch", "combine", "done"}) =>
        /\ Len(responses) = idx - 1
        /\ Len(responses) <= Len(intervals)
        /\ \A k \in DOMAIN responses :
              /\ responses[k].interval = intervals[k]
              /\ Cardinality(EntriesFor(successful_intervals, intervals[k]))
                   + Cardinality(EntriesFor(failed_intervals, intervals[k])) = 1
        /\ Len(successful_intervals) + Len(failed_intervals) = Len(responses)
        /\ pc \in {"combine", "done"} => Len(responses) = Len(intervals)

C28_Witness ==
    /\ ~use_mock /\ pc = "done"
    /\ Len(intervals) = 3
    /\ responses[1].kind = "http_error"
    /\ responses[2].kind = "save_error"
    /\ responses[3].kind = "ok"
    /\ Len(successful_intervals) = 1 /\ Len(failed_intervals) = 2

\* C25: generate_date_intervals terminates whatever --interval-years is:
\* every iteration of its while loop moves current_start forward, towards
\* end_date.  The loop body is deterministic in current_start, so an
\* iteration that leaves current_start where it was is repeated for ever.
C25_GenerationTerminates ==
    (pc = "generate" /\ start_year <= end_year /\ current_start < EndDate) =>
        CurrentEnd(current_start, interval_years, EndDate) + 1 > current_start

(***************************************************************************)
(* Properties of the orchestration's data flow and retries.                *)
(***************************************************************************)

\* C22: upload_to_minio, version_data, generate_profiling_report and
\* train_model start only after transform_data succeeded in this run, and
\* the path each of them pulls (and hands on) is the one transform_data
\* returned
C22_DownstreamGetsTransformOutput ==
    \A k \in 4 .. NumTasks :
        Started(k) =>
            /\ task_state[3] = "success"
            /\ xcom[3] = ProcessedPath
            /\ xcom[k - 1] = xcom[3]
            /\ task_state[k] = "success" => xcom[k] = xcom[3]

C22_Witness ==
    /\ \A k \in 1 .. NumTasks : task_state[k] = "success"
    /\ try_number[3] = 2
    /\ try_number[4] = 2

\* C24: the combined file whose path extract_data returns was written by
\* the download of this run
C24_ExtractReturnsFreshFile ==
    task_state[1] = "success" => raw_file = "fresh"

\* C29: no stage is attempted more than 1 + retries times in a run, and
\* every run ends Done or Aborted
C29_BoundedRetriesRunEnds ==
    /\ [](\A k \in 1 .. NumTasks : try_number[k] <= 1 + Retries)
    /\ <>(RunState \in {"Done", "Aborted"})

C29_Witness ==
    /\ try_number[1] = 1 + Retries /\ task_state[1] = "success"
    /\ try_number[2] = 1 + Retries /\ task_state[2] = "failed"
    /\ RunState = "Aborted"

(***************************************************************************)
(* Properties of events without an id.                                     *)
(***************************************************************************)

\* the rows of the emitted table whose id is the empty string
IdLessRows == {k \in DOMAIN Out : Out[k].id = ""}

\* C30: every event without an id is given the id '', so the emitted table
\* holds at most one event without an id, however many the input held
C30_AtMostOneIdLessEvent ==
    (tpc = "done" /\ output_table.written) => Cardinality(IdLessRows) <= 1

C30_Witness ==
    /\ tpc = "done" /\ output_table.written
    /\ Len(features) = 3
    /\ features[1].id = NoId /\ features[2].id = NoId
    /\ features[1] # features[2]
    /\ features[3].id = "g"
    /\ Len(Out) = 2
    /\ Cardinality(IdLessRows) = 1

(***************************************************************************)
(* Properties of the feature matrix used for training.                     *)
(***************************************************************************)

\* the table transform_data.main emits for the input feats when no step
\* raises and the event times are distinct (each sort has one result)
TransformOf(feats) ==
    LET timed   == CreateTimeFeatures(LoadGeojson(feats))
        ordered == CHOOSE t \in SortValues(timed) : TRUE
        cleaned == CleanData(CreateLocationFeatures(CreateLagFeatures(ordered)))
    IN  CHOOSE t \in SortValues(cleaned) : TRUE

\* magnitudes within [0, 10] an event's magnitude is replaced by
OtherMagnitudes == {F(20), F(55)}

\* the row of event id in the feature matrix of table tbl
FeatureRow(tbl, id) ==
    PrepareFeatures(tbl)[CHOOSE k \in DOMAIN tbl : tbl[k].id = id]

\* C26: with target 'magnitude' the features of a row do not depend on that
\* row's own magnitude: an input that differs from the transformed one only
\* in the magnitude of one event, both magnitudes within [0, 10], gives the
\* same feature values for that event's row
C26_NoTargetLeakage ==
    (train_pc = "prepared" /\ CleaningRemovesNothing) =>
        \A i \in DOMAIN features, m \in OtherMagnitudes :
            LET id == Record(features[i]).id
            IN  FeatureRow(TransformOf([features EXCEPT ![i].mag = m]), id)
                    = X[CHOOSE k \in DOMAIN Out : Out[k].id = id]

(***************************************************************************)
(* Properties of POST /predict.                                            *)
(***************************************************************************)

\* C23: a request with an empty features list is answered with HTTP 400,
\* whether or not a model could be loaded
C23_EmptyFeaturesAnswered400 ==
    (apc = "idle" /\ http_status # 0 /\ request.rows = 0) => http_status = 400

\* C27: the ACTIVE_REQUESTS gauge is incremented once and decremented once
\* per request on every path: it is never negative and is back at 0 whenever
\* no request is being handled
C27_ActiveRequestsBalanced ==
    /\ active_requests >= 0
    /\ apc = "idle" => active_requests = 0

====
